---- MODULE Spec2Model ----
(***************************************************************************)
(* A model of map.py: main() and create_japan_map_from_excel().            *)
(*                                                                         *)
(* The two input files are fixed in the initial state.  One action models  *)
(* each statement group of the function, in program order; an exception    *)
(* raised by a statement ends the run (pc = "error"), because the source   *)
(* has no try/except.  CallAgain models a second call of main() in the     *)
(* same interpreter, so the function's default arguments are shared by     *)
(* the two calls.                                                          *)
(***************************************************************************)
EXTENDS Integers, Sequences, FiniteSets, TLC

VARIABLES
    geojson,        \* content of the GeoJSON input file
    excel,          \* content of the spreadsheet input file
    args,           \* keyword arguments the caller passes (<<>> = omitted)
    defaultCenter,  \* the list object bound to the default of `center`
    run,            \* "first" or "second" call in this interpreter
    prev,           \* the map returned by the first call
    pc,             \* position in the program
    fmap,           \* the folium.Map under construction
    japan_geo,      \* result of json.load
    df,             \* result of pd.read_excel
    idx,            \* number of rows the for loop has completed
    locals,         \* icon_color, show_circle, circle_color of the last row
    outFile,        \* japan_map.html
    stdout,         \* lines printed
    err,            \* the uncaught exception, "" when none
    trace           \* statements executed by the current call, in order

vars == <<geojson, excel, args, defaultCenter, run, prev, pc, fmap, japan_geo,
          df, idx, locals, outFile, stdout, err, trace>>

-----------------------------------------------------------------------------
(* Bounds of the model *)

MaxRows == 2
MaxRingLen == 2

-----------------------------------------------------------------------------
(* Python values as they appear in spreadsheet cells *)

FloatCell(s) == [t |-> "float", v |-> s]
StrCell(s) == [t |-> "str", v |-> s]
BoolCell(s) == [t |-> "bool", v |-> s]
IntCell(s) == [t |-> "int", v |-> s]

\* pandas stores an empty cell as float('nan')
NaN == FloatCell("nan")

\* pd.notnull on a scalar
notnull(c) == c # NaN

\* Python's bool(): False, 0, 0.0 and "" are falsy; nan is a non-zero float
PyBool(c) ==
    CASE c.t = "bool" -> c.v = "True"
      [] c.t = "int" -> c.v # "0"
      [] c.t = "float" -> c.v # "0.0"
      [] c.t = "str" -> c.v # ""

-----------------------------------------------------------------------------
(* Program constants *)

DefaultCenterValue == <<"36.2048", "138.2529">>
DefaultZoomStart == 5
MaxBounds == <<<<20, 122>>, <<46, 154>>>>
MinZoom == 5
MaxZoom == 12
CircleRadius == 10000
DefaultColor == StrCell("blue")
WorldRingLatLon == <<<<90, 180>>, <<-90, 180>>, <<-90, -180>>, <<90, -180>>, <<90, 180>>>>

WorldRing == <<<<180, 90>>, <<180, -90>>, <<-180, -90>>, <<-180, 90>>, <<180, 90>>>>
DoneMessage == "japan_map.html"

Required == {"lat", "lon", "info"}
Optional == {"color", "show_circle", "circle_color"}

-----------------------------------------------------------------------------
(* Inputs *)

Places ==
    { [lat |-> FloatCell("35.0"), lon |-> FloatCell("139.0"), info |-> StrCell("Tokyo")],
      [lat |-> FloatCell("43.0"), lon |-> FloatCell("141.0"), info |-> StrCell("Sapporo")] }

Styles ==
    [ color : {NaN, StrCell("red")},
      show_circle : {BoolCell("True"), BoolCell("False"), NaN, IntCell("1")},
      circle_color : {NaN, StrCell("green")} ]

\* a header has every required column and any optional ones, or lacks
\* exactly one required column
Headers ==
    {Required \cup o : o \in SUBSET Optional} \cup {Required \ {c} : c \in Required}

\* the rows a spreadsheet with header h can hold
RowsOf(h) ==
    {[c \in h |-> IF c \in Required THEN p[c] ELSE s[c]] : p \in Places, s \in Styles}

NoSheet(status) == [status |-> status, cols |-> {}, rows |-> <<>>]

Sheet(h, rs) == [status |-> "ok", cols |-> h, rows |-> rs]

Tokyo ==
    [lat |-> FloatCell("35.0"), lon |-> FloatCell("139.0"), info |-> StrCell("Tokyo"),
     color |-> NaN, show_circle |-> BoolCell("True"), circle_color |-> StrCell("green")]

\* the spreadsheets of the runs that vary the boundary
FewSheets ==
    { NoSheet("missing"), NoSheet("unreadable"),
      Sheet(Required, <<>>),
      Sheet({"lon", "info"}, <<[c \in {"lon", "info"} |-> Tokyo[c]]>>),
      Sheet(Required \cup Optional, <<Tokyo>>) }

PIn == <<139, 35>>
POut == <<200, 95>>
Points == {PIn, POut}

Rings == UNION {[1..k -> Points] : k \in 1..MaxRingLen}

\* geometry.coordinates of a feature: no ring, an outer ring, or an outer
\* ring and one hole
Feature(coords) == [geometry |-> [coordinates |-> coords]]

Features ==
    {Feature(<<>>)} \cup {Feature(<<r>>) : r \in Rings}
        \cup {Feature(<<r, h>>) : r \in Rings, h \in Rings}

NoDoc(status) == [status |-> status, features |-> <<>>]

Doc(fs) == [status |-> "ok", features |-> fs]

GeoDocs ==
    {Doc(<<>>)} \cup {Doc(<<f>>) : f \in Features}
        \cup {Doc(<<f, Feature(<<r>>)>>) : f \in Features, r \in Rings}

GeoInputs == GeoDocs \cup {NoDoc("missing"), NoDoc("malformed")}

JapanDoc == Doc(<<Feature(<<<<PIn, PIn>>>>)>>)

ArgSets ==
    { [center |-> <<>>, zoom_start |-> <<>>],
      [center |-> <<<<"35.0", "135.0">>>>, zoom_start |-> <<7>>] }

-----------------------------------------------------------------------------
(* The map object *)

NoMap == [location |-> <<>>, zoom_start |-> 0, options |-> <<>>, layers |-> <<>>]

NoLocals == [icon_color |-> NaN, show_circle |-> FALSE, circle_color |-> NaN]

NoFile == [state |-> "absent", by |-> "none"]

NewMapLayers == <<>>

TileLayer == [kind |-> "tile", overlay |-> FALSE]

MaskLayerLastRing(geo) ==
    [kind |-> "mask",
     coordinates |->
        <<WorldRing,
          geo.features[1].geometry.coordinates[Len(geo.features[1].geometry.coordinates)]>>]

MaskLayer(geo) ==
    [kind |-> "mask",
     coordinates |-> <<WorldRing, geo.features[1].geometry.coordinates[1]>>]

MarkerLonLat(lat, lon, label, icon_color) ==
    [kind |-> "marker", location |-> <<lon, lat>>, tooltip |-> label, color |-> icon_color]

Marker(lat, lon, label, icon_color) ==
    [kind |-> "marker", location |-> <<lat, lon>>, tooltip |-> label, color |-> icon_color]

Circle(lat, lon, circle_color) ==
    [kind |-> "circle", location |-> <<lat, lon>>, radius |-> CircleRadius,
     color |-> circle_color]

IconColorNoNullCheck(row, cols) ==
    IF "color" \in cols THEN row["color"] ELSE DefaultColor

IconColor(row, cols) ==
    IF "color" \in cols /\ notnull(row["color"]) THEN row["color"] ELSE DefaultColor

ShowCircle(row, cols) ==
    PyBool(IF "show_circle" \in cols THEN row["show_circle"] ELSE BoolCell("False"))

CircleColor(row, cols) ==
    IF "circle_color" \in cols /\ notnull(row["circle_color"])
    THEN row["circle_color"] ELSE DefaultColor

RowLayers(row, cols) ==
    <<Marker(row["lat"], row["lon"], row["info"], IconColor(row, cols))>>
        \o (IF ShowCircle(row, cols)
            THEN <<Circle(row["lat"], row["lon"], CircleColor(row, cols))>>
            ELSE <<>>)

-----------------------------------------------------------------------------
(* Actions *)

Raise(kind) ==
    /\ pc' = "error"
    /\ err' = kind

\* the default list reversed in place after use
CreateMapReversingCenter ==
    /\ pc = "start"
    /\ fmap' = [location |-> IF args.center = <<>> THEN defaultCenter ELSE args.center[1],
                zoom_start |-> IF args.zoom_start = <<>> THEN DefaultZoomStart
                               ELSE args.zoom_start[1],
                options |-> [maxBounds |-> MaxBounds, minZoom |-> MinZoom,
                             maxZoom |-> MaxZoom],
                layers |-> NewMapLayers]
    /\ defaultCenter' = IF args.center = <<>> THEN <<defaultCenter[2], defaultCenter[1]>>
                        ELSE defaultCenter
    /\ pc' = "map_created"
    /\ trace' = Append(trace, "map")
    /\ UNCHANGED <<geojson, excel, args, run, prev, japan_geo, df, idx,
                   locals, outFile, stdout, err>>

CreateMap ==
    /\ pc = "start"
    /\ fmap' = [location |-> IF args.center = <<>> THEN defaultCenter ELSE args.center[1],
                zoom_start |-> IF args.zoom_start = <<>> THEN DefaultZoomStart
                               ELSE args.zoom_start[1],
                options |-> [maxBounds |-> MaxBounds, minZoom |-> MinZoom,
                             maxZoom |-> MaxZoom],
                layers |-> NewMapLayers]
    /\ pc' = "map_created"
    /\ trace' = Append(trace, "map")
    /\ UNCHANGED <<geojson, excel, args, defaultCenter, run, prev, japan_geo, df, idx,
                   locals, outFile, stdout, err>>

AddTileLayer ==
    /\ pc = "map_created"
    /\ fmap' = [fmap EXCEPT !.layers = Append(@, TileLayer)]
    /\ pc' = "tiled"
    /\ trace' = Append(trace, "tile")
    /\ UNCHANGED <<geojson, excel, args, defaultCenter, run, prev, japan_geo, df, idx,
                   locals, outFile, stdout, err>>

LoadGeoJson ==
    /\ pc = "tiled"
    /\ trace' = Append(trace, "geojson")
    /\ IF geojson.status = "missing"
       THEN Raise("FileNotFoundError") /\ UNCHANGED japan_geo
       ELSE IF geojson.status = "malformed"
       THEN Raise("JSONDecodeError") /\ UNCHANGED japan_geo
       ELSE /\ japan_geo' = [features |-> geojson.features]
            /\ pc' = "geo_loaded"
            /\ UNCHANGED err
    /\ UNCHANGED <<geojson, excel, args, defaultCenter, run, prev, fmap, df, idx,
                   locals, outFile, stdout>>

AddMask ==
    /\ pc = "geo_loaded"
    /\ trace' = Append(trace, "mask")
    /\ IF \/ Len(japan_geo.features) = 0
          \/ Len(japan_geo.features[1].geometry.coordinates) = 0
       THEN Raise("IndexError") /\ UNCHANGED fmap
       ELSE /\ fmap' = [fmap EXCEPT !.layers = Append(@, MaskLayer(japan_geo))]
            /\ pc' = "masked"
            /\ UNCHANGED err
    /\ UNCHANGED <<geojson, excel, args, defaultCenter, run, prev, japan_geo, df, idx,
                   locals, outFile, stdout>>

ReadExcel ==
    /\ pc = "masked"
    /\ trace' = Append(trace, "excel")
    /\ IF excel.status = "missing"
       THEN Raise("FileNotFoundError") /\ UNCHANGED <<df, idx>>
       ELSE IF excel.status = "unreadable"
       THEN Raise("ValueError") /\ UNCHANGED <<df, idx>>
       ELSE /\ df' = [cols |-> excel.cols, rows |-> excel.rows]
            /\ idx' = 0
            /\ pc' = "loop"
            /\ UNCHANGED err
    /\ UNCHANGED <<geojson, excel, args, defaultCenter, run, prev, fmap, japan_geo,
                   locals, outFile, stdout>>

ProcessRow ==
    /\ pc = "loop"
    /\ idx < Len(df.rows)
    /\ trace' = Append(trace, "row")
    /\ LET row == df.rows[idx + 1] IN
       IF ~(Required \subseteq df.cols)
       THEN Raise("KeyError") /\ UNCHANGED <<fmap, idx, locals>>
       ELSE /\ locals' = [icon_color |-> IconColor(row, df.cols),
                          show_circle |-> ShowCircle(row, df.cols),
                          circle_color |-> CircleColor(row, df.cols)]
            /\ fmap' = [fmap EXCEPT !.layers = @ \o RowLayers(row, df.cols)]
            /\ idx' = idx + 1
            /\ UNCHANGED <<pc, err>>
    /\ UNCHANGED <<geojson, excel, args, defaultCenter, run, prev, japan_geo, df,
                   outFile, stdout>>

Return ==
    /\ pc = "loop"
    /\ idx = Len(df.rows)
    /\ pc' = "returned"
    /\ trace' = Append(trace, "return")
    /\ prev' = IF run = "first" THEN fmap ELSE prev
    /\ UNCHANGED <<geojson, excel, args, defaultCenter, run, fmap, japan_geo, df, idx,
                   locals, outFile, stdout, err>>

Save ==
    /\ pc = "returned"
    /\ trace' = Append(trace, "save")
    /\ \E outcome \in {"ok", "open_failed", "write_failed"} :
         CASE outcome = "ok" ->
                /\ outFile' = [state |-> "complete", by |-> run]
                /\ pc' = "saved"
                /\ UNCHANGED err
           [] outcome = "open_failed" ->
                /\ Raise("OSError")
                /\ UNCHANGED outFile
           [] outcome = "write_failed" ->
                /\ Raise("OSError")
                /\ outFile' = [state |-> "partial", by |-> run]
    /\ UNCHANGED <<geojson, excel, args, defaultCenter, run, prev, fmap, japan_geo, df,
                   idx, locals, stdout>>

\* the message in a finally clause
PrintDoneFinally ==
    /\ pc \in {"saved", "error"}
    /\ ~(\E i \in 1..Len(trace) : trace[i] = "print")
    /\ stdout' = Append(stdout, DoneMessage)
    /\ pc' = IF pc = "saved" THEN "done" ELSE pc
    /\ trace' = Append(trace, "print")
    /\ UNCHANGED <<geojson, excel, args, defaultCenter, run, prev, fmap, japan_geo, df,
                   idx, locals, outFile, err>>

PrintDone ==
    /\ pc = "saved"
    /\ stdout' = Append(stdout, DoneMessage)
    /\ pc' = "done"
    /\ trace' = Append(trace, "print")
    /\ UNCHANGED <<geojson, excel, args, defaultCenter, run, prev, fmap, japan_geo, df,
                   idx, locals, outFile, err>>

CallAgain ==
    /\ pc \in {"done", "error"}
    /\ run = "first"
    /\ run' = "second"
    /\ pc' = "start"
    /\ fmap' = NoMap
    /\ japan_geo' = [features |-> <<>>]
    /\ df' = [cols |-> {}, rows |-> <<>>]
    /\ idx' = 0
    /\ locals' = NoLocals
    /\ err' = ""
    /\ trace' = <<>>
    /\ UNCHANGED <<geojson, excel, args, defaultCenter, prev, outFile, stdout>>

-----------------------------------------------------------------------------
(* Specifications *)

InitLocals ==
    /\ defaultCenter = DefaultCenterValue
    /\ run = "first"
    /\ prev = NoMap
    /\ pc = "start"
    /\ fmap = NoMap
    /\ japan_geo = [features |-> <<>>]
    /\ df = [cols |-> {}, rows |-> <<>>]
    /\ idx = 0
    /\ locals = NoLocals
    /\ outFile = NoFile
    /\ stdout = <<>>
    /\ err = ""
    /\ trace = <<>>

\* main's call: every spreadsheet, a few boundaries, arguments omitted
Init ==
    /\ geojson \in {JapanDoc, Doc(<<>>), NoDoc("missing"), NoDoc("malformed")}
    /\ \/ excel \in {NoSheet("missing"), NoSheet("unreadable")}
       \/ \E h \in Headers, n \in 0..MaxRows :
            \E rs \in [1..n -> RowsOf(h)] : excel = Sheet(h, rs)
    /\ args = [center |-> <<>>, zoom_start |-> <<>>]
    /\ InitLocals

\* every boundary, a few spreadsheets, arguments omitted or passed
InitMask ==
    /\ geojson \in GeoInputs
    /\ excel \in FewSheets
    /\ args \in ArgSets
    /\ InitLocals

Next ==
    \/ CreateMap
    \/ AddTileLayer
    \/ LoadGeoJson
    \/ AddMask
    \/ ReadExcel
    \/ ProcessRow
    \/ Return
    \/ Save
    \/ PrintDone
    \/ CallAgain

Spec == Init /\ [][Next]_vars

SpecMask == InitMask /\ [][Next]_vars

-----------------------------------------------------------------------------
(* Observations used by the properties *)

OfKind(layers, k) == SelectSeq(layers, LAMBDA l : l.kind = k)

Markers == OfKind(fmap.layers, "marker")

Circles == OfKind(fmap.layers, "circle")

Did(stmt) == \E i \in 1..Len(trace) : trace[i] = stmt

HasRequired == excel.status = "ok" /\ Required \subseteq excel.cols

\* the current call has returned its map
Returned == Did("return")

\* what the specification prescribes for the show_circle cell of a row: a
\* missing column or an empty cell is false, a truthy value is true
SpecShowCircle(row, cols) ==
    /\ "show_circle" \in cols
    /\ row["show_circle"] # NaN
    /\ PyBool(row["show_circle"])

IsPrefix(s, t) == Len(s) <= Len(t) /\ \A i \in 1..Len(s) : s[i] = t[i]

FullTrace(n) ==
    <<"map", "tile", "geojson", "mask", "excel">> \o [i \in 1..n |-> "row"]
        \o <<"return", "save", "print">>

-----------------------------------------------------------------------------
(* C1 *)

\* C1: when the spreadsheet has lat, lon and info, the map holds one marker
\* per processed row, in row order, at that row's [lat, lon] with that row's
\* info as tooltip; the returned map holds exactly N markers for N rows.
C1_OneMarkerPerRow ==
    HasRequired =>
        /\ Len(Markers) = idx
        /\ idx <= Len(excel.rows)
        /\ \A i \in 1..Len(Markers) :
             /\ Markers[i].location = <<excel.rows[i]["lat"], excel.rows[i]["lon"]>>
             /\ Markers[i].tooltip = excel.rows[i]["info"]
        /\ (Returned => Len(Markers) = Len(excel.rows))

C1_Witness ==
    /\ HasRequired
    /\ pc = "returned"
    /\ Len(excel.rows) = 2
    /\ excel.rows[1]["lat"] # excel.rows[2]["lat"]
    /\ Len(Markers) = 2

-----------------------------------------------------------------------------
(* C2 *)

RECURSIVE SpecCircles(_, _, _)
\* the circles the claim prescribes for the first n rows
SpecCircles(rows, cols, n) ==
    IF n = 0 THEN <<>>
    ELSE SpecCircles(rows, cols, n - 1)
            \o (IF SpecShowCircle(rows[n], cols)
                THEN <<[location |-> <<rows[n]["lat"], rows[n]["lon"]>>,
                        radius |-> 10000]>>
                ELSE <<>>)

CircleGeometry == [i \in 1..Len(Circles) |->
                     [location |-> Circles[i].location, radius |-> Circles[i].radius]]

\* C2: a row whose show_circle is true gets exactly one circle at the row's
\* [lat, lon] with radius 10000; a row whose show_circle is false or absent
\* (no column, or an empty cell) gets none; so the circles of the map are
\* those of the rows with show_circle true, and as many.
C2_CirclePerTrueRow ==
    HasRequired => CircleGeometry = SpecCircles(excel.rows, excel.cols, idx)

-----------------------------------------------------------------------------
(* C3 *)

\* C3: the flag computed for a row is false when the show_circle column is
\* missing or the cell is empty (NaN), and true when the cell is truthy; a row
\* with an empty cell in a sheet that has the column gets no circle.
C3_EmptyCellIsFalse ==
    (HasRequired /\ pc = "loop" /\ idx > 0) =>
        LET row == excel.rows[idx]
            missing == "show_circle" \notin excel.cols
            empty == ~missing /\ row["show_circle"] = NaN
        IN  /\ (missing \/ empty) => ~locals.show_circle
            /\ (~missing /\ ~empty /\ PyBool(row["show_circle"])) => locals.show_circle
            /\ empty => fmap.layers[Len(fmap.layers)].kind # "circle"

-----------------------------------------------------------------------------
(* C4 *)

RECURSIVE CircleRows(_, _, _)
\* the indices among the first n rows for which the loop drew a circle
CircleRows(rows, cols, n) ==
    IF n = 0 THEN <<>>
    ELSE CircleRows(rows, cols, n - 1) \o (IF ShowCircle(rows[n], cols) THEN <<n>> ELSE <<>>)

\* C4: the colour of a row's marker is the row's color cell when the column
\* exists and the cell is not null, and "blue" otherwise; the colour of a
\* row's circle is the row's circle_color cell under the same condition, and
\* "blue" otherwise; each row's colour depends on that row alone.
C4_ColourOrBlue ==
    HasRequired =>
        /\ \A i \in 1..Len(Markers) :
             Markers[i].color =
                IF "color" \in excel.cols /\ excel.rows[i]["color"] # FloatCell("nan")
                THEN excel.rows[i]["color"] ELSE StrCell("blue")
        /\ LET on == CircleRows(excel.rows, excel.cols, idx) IN
           /\ Len(Circles) = Len(on)
           /\ \A j \in 1..Len(on) :
                Circles[j].color =
                   IF "circle_color" \in excel.cols
                        /\ excel.rows[on[j]]["circle_color"] # FloatCell("nan")
                   THEN excel.rows[on[j]]["circle_color"] ELSE StrCell("blue")

\* a null colour before a given colour, and a given circle colour before a
\* null one: a default that leaked to the next row would show
C4_Witness ==
    /\ HasRequired
    /\ pc = "returned"
    /\ Optional \subseteq excel.cols
    /\ Len(excel.rows) = 2
    /\ excel.rows[1]["color"] = NaN /\ excel.rows[2]["color"] = StrCell("red")
    /\ excel.rows[1]["circle_color"] = StrCell("green") /\ excel.rows[2]["circle_color"] = NaN
    /\ Len(Circles) = 2
    /\ Markers[1].color = StrCell("blue")
    /\ Circles[2].color = StrCell("blue")

-----------------------------------------------------------------------------
(* C5 *)

Masks == OfKind(fmap.layers, "mask")

\* C5: the mask polygon has exactly two rings; the outer ring is the world
\* box whatever the boundary; the hole is features[0].geometry.coordinates[0]
\* of the loaded GeoJSON, point for point; no other ring or feature of the
\* input is in the mask.
C5_MaskRings ==
    \A m \in 1..Len(Masks) :
        /\ Len(Masks[m].coordinates) = 2
        /\ Masks[m].coordinates[1]
             = <<<<180, 90>>, <<180, -90>>, <<-180, -90>>, <<-180, 90>>, <<180, 90>>>>
        /\ Masks[m].coordinates[2] = geojson.features[1].geometry.coordinates[1]

\* a boundary with two features and two rings in the first, all different
C5_Witness ==
    /\ Len(Masks) = 1
    /\ Len(geojson.features) = 2
    /\ Len(geojson.features[1].geometry.coordinates) = 2
    /\ LET first == geojson.features[1].geometry.coordinates[1] IN
       /\ Len(first) = 2
       /\ first[1] # first[2]
       /\ geojson.features[1].geometry.coordinates[2] # first
       /\ geojson.features[2].geometry.coordinates[1] # first

-----------------------------------------------------------------------------
(* C6 *)

\* C6: a spreadsheet that lacks lat, lon or info, with any number of data
\* rows, zero included, never gets through the run: the function does not
\* return a map and no output file is written.
C6_MissingColumnAborts ==
    (excel.status = "ok" /\ ~(Required \subseteq excel.cols)) =>
        /\ ~Returned
        /\ outFile.state = "absent"

-----------------------------------------------------------------------------
(* C7 *)

\* C7: the statements of a call run once each, in program order; the file is
\* written only after both inputs were read in full and every row's layers
\* were added; the message is printed only after the write finished; an
\* uncaught error ends the call with no message; a call that did not reach
\* the save step has not touched the output file.
C7_SaveLastPrintAfter ==
    /\ IsPrefix(trace, FullTrace(Len(excel.rows)))
    /\ Did("save") =>
         /\ geojson.status = "ok" /\ japan_geo.features = geojson.features
         /\ excel.status = "ok" /\ df.rows = excel.rows /\ idx = Len(excel.rows)
         /\ Len(Masks) = 1
         /\ Len(Markers) = Len(excel.rows)
    /\ Did("print") => (outFile = [state |-> "complete", by |-> run] /\ err = "")
    /\ pc = "error" => (~Did("print") /\ err # "")
    /\ ~Did("save") => outFile.by # run
    /\ Len(stdout) <= (IF run = "second" THEN 1 ELSE 0) + (IF Did("print") THEN 1 ELSE 0)

C7_Witness ==
    /\ pc = "done"
    /\ run = "first"
    /\ Len(excel.rows) = 2
    /\ Len(stdout) = 1
    /\ outFile.state = "complete"

-----------------------------------------------------------------------------
(* C8 *)

\* C8: the second call on the same inputs returns a map with the same
\* number of markers, circles and layers and the same configuration as the
\* first: the default center [36.2048, 138.2529] and zoom_start 5 when the
\* arguments are omitted, maxBounds [[20.0,122.0],[46.0,154.0]], minZoom 5,
\* maxZoom 12; the shared default center list is as it was.
C8_SecondCallSameMap ==
    /\ defaultCenter = <<"36.2048", "138.2529">>
    /\ (run = "second" /\ Returned) =>
         /\ Len(OfKind(prev.layers, "marker")) = Len(Markers)
         /\ Len(OfKind(prev.layers, "circle")) = Len(Circles)
         /\ Len(prev.layers) = Len(fmap.layers)
         /\ prev.location = fmap.location
         /\ prev.zoom_start = fmap.zoom_start
         /\ prev.options = fmap.options
         /\ args.center = <<>> => fmap.location = <<"36.2048", "138.2529">>
         /\ args.zoom_start = <<>> => fmap.zoom_start = 5
         /\ fmap.options = [maxBounds |-> <<<<20, 122>>, <<46, 154>>>>,
                            minZoom |-> 5, maxZoom |-> 12]

C8_Witness ==
    /\ run = "second"
    /\ pc = "returned"
    /\ args.center = <<>>
    /\ Len(Markers) = 2
    /\ Len(Circles) = 1
    /\ prev.layers = fmap.layers

-----------------------------------------------------------------------------
(* C9 *)

Shape(l) ==
    [kind |-> l.kind,
     at |-> IF l.kind \in {"marker", "circle"} THEN l.location ELSE <<>>]

LayerShapes == [i \in 1..Len(fmap.layers) |-> Shape(fmap.layers[i])]

BaseShapes == <<[kind |-> "tile", at |-> <<>>], [kind |-> "mask", at |-> <<>>]>>

RECURSIVE SpecPoints(_, _, _)
\* the point layers the claim prescribes for the first n rows
SpecPoints(rows, cols, n) ==
    IF n = 0 THEN <<>>
    ELSE LET at == <<rows[n]["lat"], rows[n]["lon"]>> IN
         SpecPoints(rows, cols, n - 1)
            \o <<[kind |-> "marker", at |-> at]>>
            \o (IF SpecShowCircle(rows[n], cols)
                THEN <<[kind |-> "circle", at |-> at]>> ELSE <<>>)

\* C9: the layers are one base tile layer (not an overlay), then one mask,
\* then for each row in spreadsheet order its marker, immediately followed
\* by its circle when the row's show_circle is true; nothing else is added.
C9_LayerOrder ==
    LET rowsDone == IF HasRequired THEN idx ELSE 0
        want == BaseShapes \o SpecPoints(excel.rows, excel.cols, rowsDone)
    IN  /\ IsPrefix(LayerShapes, want)
        /\ Len(fmap.layers) >= 1 => ~fmap.layers[1].overlay
        /\ Returned => LayerShapes = want

-----------------------------------------------------------------------------
(* C10 *)

InWorld(ring) ==
    \A i \in 1..Len(ring) : ring[i][1] \in -180..180 /\ ring[i][2] \in -90..90

\* every point of the hole lies in the bounding box of the outer ring
Encloses(outer, hole) ==
    \A i \in 1..Len(hole) :
        /\ \E a, b \in 1..Len(outer) : outer[a][1] <= hole[i][1] /\ hole[i][1] <= outer[b][1]
        /\ \E a, b \in 1..Len(outer) : outer[a][2] <= hole[i][2] /\ hole[i][2] <= outer[b][2]

\* C10 as stated: every point of the hole ring of every mask the function
\* adds has longitude in [-180,180] and latitude in [-90,90].
C10_HoleAlwaysInWorld ==
    \A m \in 1..Len(Masks) : InWorld(Masks[m].coordinates[2])

\* C10 as amended: the outer ring of a mask encloses its hole exactly when
\* every point of the input's features[0].geometry.coordinates[0] is in
\* world range; the function checks no coordinate.
C10_EnclosedIffInputInWorld ==
    \A m \in 1..Len(Masks) :
        Encloses(Masks[m].coordinates[1], Masks[m].coordinates[2])
            <=> InWorld(geojson.features[1].geometry.coordinates[1])

C10_Witness ==
    /\ Len(Masks) = 1
    /\ Len(Masks[1].coordinates[2]) = 2
    /\ InWorld(geojson.features[1].geometry.coordinates[1])
    /\ Encloses(Masks[1].coordinates[1], Masks[1].coordinates[2])

-----------------------------------------------------------------------------
(* What the empty show_circle cell accounts for *)

NoEmptyFlag ==
    "show_circle" \in excel.cols =>
        \A i \in 1..Len(excel.rows) : excel.rows[i]["show_circle"] # NaN

\* on spreadsheets with no empty show_circle cell the circles and the layer
\* order are the prescribed ones
PrescribedWhenNoEmptyFlag ==
    NoEmptyFlag => (C2_CirclePerTrueRow /\ C9_LayerOrder)

====
